---- MODULE Spec2Model ----
(***************************************************************************)
(* Model of the peepers terminal table viewer: the PeepFrame browsing      *)
(* session (src/models.rs), the renderer's table slice (src/render.rs) and *)
(* the key-event loop that drives them (src/control.rs, src/main.rs).      *)
(*                                                                         *)
(* A LazyFrame is modelled by what the session can observe of it: the plan *)
(* it was built from, the rows it yields (ids of rows of the file), its    *)
(* column names, and whether collecting it succeeds. A plan that still     *)
(* holds a random mask (draw = <<n>>) draws the mask anew at every         *)
(* collect; a collected frame (draw = <<>>) yields its rows as they are.   *)
(***************************************************************************)
EXTENDS Integers, Sequences, FiniteSets, TLC

\* ---- bounds of the model ----
MaxRows == 3
MaxCols == 2
MaxDisplayRows == 2
MaxDisplayCols == 2
\* how many Down keys in a row are counted from the start of a session
MaxDowns == 15
\* the largest file of the paging sessions
MaxPagingRows == 100
MaxPagingCols == 12

\* ---- main.rs: the defaults of the row_count and col_count arguments ----
DefaultDisplayRows == 7
DefaultDisplayCols == 5

\* ---- helpers for usize arithmetic ----
Min(a, b) == IF a <= b THEN a ELSE b

\* usize::saturating_sub
saturating_sub(a, b) == IF a >= b THEN a - b ELSE 0

\* ---- the tabular engine (polars) as the session observes it ----

\* the column names of the file, in schema order
FileColumns ==
    <<"c1", "c2", "c3", "c4", "c5", "c6", "c7", "c8",
      "c9", "c10", "c11", "c12", "c13", "c14">>

\* LazyFrame::scan_parquet / LazyCsvReader::finish on a file of nrows x ncols
scan_file(nrows, ncols) ==
    [plan |-> <<"scan">>,
     rows |-> [i \in 1..nrows |-> i],
     cols |-> SubSeq(FileColumns, 1, ncols),
     ok   |-> TRUE,
     draw |-> <<>>]

\* lf.select([count()]).collect(): the row count, or an error; a plan that
\* filters by a mask of n true entries counts n rows
collect_count(lf) ==
    IF lf.ok
    THEN [res |-> "ok", n |-> IF lf.draw = <<>> THEN Len(lf.rows) ELSE lf.draw[1]]
    ELSE [res |-> "err", n |-> 0]

\* lf.schema(): the column names, or an error
schema_names(lf) == IF lf.ok THEN [res |-> "ok", names |-> lf.cols]
                             ELSE [res |-> "err", names |-> <<>>]

\* lf.slice(offset, len)
slice_rows(rows, offset, len) ==
    SubSeq(rows, offset + 1, Min(offset + len, Len(rows)))

\* Query texts the user may type at the SQL prompt. "q" leaves the prompt.
\*   bad      : rejected by SQLContext::execute (syntax error, unknown table)
\*   all      : SELECT * FROM t
\*   rename   : SELECT <first column> AS alias FROM t
\*   where    : SELECT * FROM t WHERE <keeps the odd rows>
\*   wide     : SELECT *, 1 AS x, 2 AS y FROM t
\*   lazyfail : accepted by execute, but the plan fails when collected
QueryTexts == {"bad", "all", "rename", "where", "wide", "lazyfail"}

AliasName == "z"
ExtraCols == <<"x", "y">>

IsOdd(i) == i % 2 = 1

\* SQLContext::register(name, lf) followed by SQLContext::execute(text)
sql_execute(name, lf, text) ==
    CASE text = "all" ->
           [res |-> "ok", lf |-> [lf EXCEPT !.plan = Append(@, "all")]]
      [] text = "rename" ->
           IF Len(lf.cols) = 0
           THEN [res |-> "err", lf |-> lf]
           ELSE [res |-> "ok",
                 lf |-> [lf EXCEPT !.plan = Append(@, "rename"),
                                   !.cols = <<AliasName>>]]
      [] text = "where" ->
           [res |-> "ok",
            lf |-> [lf EXCEPT !.plan = Append(@, "where"),
                              !.rows = SelectSeq(@, IsOdd)]]
      [] text = "wide" ->
           [res |-> "ok",
            lf |-> [lf EXCEPT !.plan = Append(@, "wide"),
                              !.cols = @ \o ExtraCols]]
      [] text = "lazyfail" ->
           [res |-> "ok",
            lf |-> [lf EXCEPT !.plan = Append(@, "lazyfail"),
                              !.ok = FALSE]]
      [] OTHER -> [res |-> "err", lf |-> lf]

\* ---- models.rs ----

Original == "Original"
Queried == "Queried"
RandomRows == "RandomRows"

\* PeepFrame::from_file on a readable file of nrows x ncols
from_file(nrows, ncols, display_rows, display_cols) ==
    LET lf == scan_file(nrows, ncols)
        max_rows == collect_count(lf).n
        col_names == schema_names(lf).names
        max_cols == Len(col_names)
    IN [file_name |-> "t",
        current_lazy_frame |-> lf,
        original_lazy_frame |-> lf,
        max_rows |-> max_rows,
        max_cols |-> max_cols,
        col_names |-> col_names,
        row_slice_state |-> <<0, Min(display_rows, max_rows)>>,
        col_slice_state |-> <<0, Min(display_cols, max_cols)>>,
        modifier_state |-> Original,
        display_rows |-> display_rows,
        display_cols |-> display_cols]

\* update_with without the assignment of current_lazy_frame
update_with_keeps_frame(self, lf, new_modifier_state) ==
    LET cnt == collect_count(lf)
        sch == schema_names(lf)
        a == self.col_slice_state[1]
    IN IF cnt.res # "ok" \/ sch.res # "ok"
       THEN [res |-> "err", pf |-> self]
       ELSE [res |-> "ok",
             pf |-> [self EXCEPT
                 !.max_rows = cnt.n,
                 !.max_cols = Len(sch.names),
                 !.col_names = sch.names,
                 !.row_slice_state = <<0, Min(self.display_rows, cnt.n)>>,
                 !.modifier_state = new_modifier_state,
                 !.col_slice_state =
                     IF new_modifier_state \in {Original, Queried}
                     THEN <<0, Min(self.display_cols, Len(sch.names))>>
                     ELSE <<a, Min(a + self.display_cols, Len(sch.names))>>]]

\* update_with storing the new frame as the original frame too
update_with_replaces_original(self, lf, new_modifier_state) ==
    LET cnt == collect_count(lf)
        sch == schema_names(lf)
        a == self.col_slice_state[1]
    IN IF cnt.res # "ok" \/ sch.res # "ok"
       THEN [res |-> "err", pf |-> self]
       ELSE [res |-> "ok",
             pf |-> [self EXCEPT
                 !.current_lazy_frame = lf,
                 !.original_lazy_frame = lf,
                 !.max_rows = cnt.n,
                 !.max_cols = Len(sch.names),
                 !.col_names = sch.names,
                 !.row_slice_state = <<0, Min(self.display_rows, cnt.n)>>,
                 !.modifier_state = new_modifier_state,
                 !.col_slice_state =
                     IF new_modifier_state \in {Original, Queried}
                     THEN <<0, Min(self.display_cols, Len(sch.names))>>
                     ELSE <<a, Min(a + self.display_cols, Len(sch.names))>>]]

\* update_with storing the new frame before the fallible count and schema
update_with_stores_first(self, lf, new_modifier_state) ==
    LET cnt == collect_count(lf)
        sch == schema_names(lf)
        a == self.col_slice_state[1]
    IN IF cnt.res # "ok" \/ sch.res # "ok"
       THEN [res |-> "err", pf |-> [self EXCEPT !.current_lazy_frame = lf]]
       ELSE [res |-> "ok",
             pf |-> [self EXCEPT
                 !.current_lazy_frame = lf,
                 !.max_rows = cnt.n,
                 !.max_cols = Len(sch.names),
                 !.col_names = sch.names,
                 !.row_slice_state = <<0, Min(self.display_rows, cnt.n)>>,
                 !.modifier_state = new_modifier_state,
                 !.col_slice_state =
                     IF new_modifier_state \in {Original, Queried}
                     THEN <<0, Min(self.display_cols, Len(sch.names))>>
                     ELSE <<a, Min(a + self.display_cols, Len(sch.names))>>]]

\* update_with without the RandomRows branch: the col view is always reset
update_with_resets_cols(self, lf, new_modifier_state) ==
    LET cnt == collect_count(lf)
        sch == schema_names(lf)
    IN IF cnt.res # "ok" \/ sch.res # "ok"
       THEN [res |-> "err", pf |-> self]
       ELSE [res |-> "ok",
             pf |-> [self EXCEPT
                 !.current_lazy_frame = lf,
                 !.max_rows = cnt.n,
                 !.max_cols = Len(sch.names),
                 !.col_names = sch.names,
                 !.row_slice_state = <<0, Min(self.display_rows, cnt.n)>>,
                 !.modifier_state = new_modifier_state,
                 !.col_slice_state =
                     <<0, Min(self.display_cols, Len(sch.names))>>]]

\* PeepFrame::update_with
update_with(self, lf, new_modifier_state) ==
    LET cnt == collect_count(lf)
        sch == schema_names(lf)
        max_rows == cnt.n
        col_names == sch.names
        max_cols == Len(col_names)
        a == self.col_slice_state[1]
    IN IF cnt.res # "ok" \/ sch.res # "ok"
       THEN [res |-> "err", pf |-> self]
       ELSE [res |-> "ok",
             pf |-> [self EXCEPT
                 !.current_lazy_frame = lf,
                 !.max_rows = max_rows,
                 !.max_cols = max_cols,
                 !.col_names = col_names,
                 !.row_slice_state = <<0, Min(self.display_rows, max_rows)>>,
                 !.modifier_state = new_modifier_state,
                 !.col_slice_state =
                     IF new_modifier_state \in {Original, Queried}
                     THEN <<0, Min(self.display_cols, max_cols)>>
                     ELSE <<a, Min(a + self.display_cols, max_cols)>>]]

\* down advancing the start by a page and clamping it, instead of deriving
\* it from the clamped end
down_clamps_start(self) ==
    LET a == Min(self.row_slice_state[1] + self.display_rows, self.max_rows)
        b == Min(a + self.display_rows, self.max_rows)
    IN [self EXCEPT !.row_slice_state = <<a, b>>]

\* down starting the new window at the old end, instead of a page before the
\* clamped end
down_keeps_partial_page(self) ==
    LET a == self.row_slice_state[2]
        b == Min(a + self.display_rows, self.max_rows)
    IN [self EXCEPT !.row_slice_state = <<a, b>>]

\* down without the clamp to max_rows
down_unclamped(self) ==
    LET b == self.row_slice_state[2] + self.display_rows
        a == saturating_sub(b, self.display_rows)
    IN [self EXCEPT !.row_slice_state = <<a, b>>]

\* PeepFrame::down
down(self) ==
    LET b == Min(self.row_slice_state[2] + self.display_rows, self.max_rows)
        a == saturating_sub(b, self.display_rows)
    IN [self EXCEPT !.row_slice_state = <<a, b>>]

\* up without the clamp of the end to max_rows
up_unclamped(self) ==
    LET a == saturating_sub(self.row_slice_state[1], self.display_rows)
        b == a + self.display_rows
    IN [self EXCEPT !.row_slice_state = <<a, b>>]

\* PeepFrame::up
up(self) ==
    LET a == saturating_sub(self.row_slice_state[1], self.display_rows)
        b == Min(a + self.display_rows, self.max_rows)
    IN [self EXCEPT !.row_slice_state = <<a, b>>]

\* right writing the window it computes into row_slice_state as well
right_moves_rows(self) ==
    LET b == Min(self.col_slice_state[2] + self.display_cols, self.max_cols)
        a == saturating_sub(b, self.display_cols)
    IN [self EXCEPT !.col_slice_state = <<a, b>>, !.row_slice_state = <<a, b>>]

\* PeepFrame::right
right(self) ==
    LET b == Min(self.col_slice_state[2] + self.display_cols, self.max_cols)
        a == saturating_sub(b, self.display_cols)
    IN [self EXCEPT !.col_slice_state = <<a, b>>]

\* PeepFrame::left
left(self) ==
    LET a == saturating_sub(self.col_slice_state[1], self.display_cols)
        b == Min(a + self.display_cols, self.max_cols)
    IN [self EXCEPT !.col_slice_state = <<a, b>>]

\* PeepFrame::jump_to_tail
jump_to_tail(self) ==
    LET b == self.max_rows
        a == saturating_sub(b, self.display_rows)
    IN [self EXCEPT !.row_slice_state = <<a, b>>]

\* PeepFrame::jump_to_head
jump_to_head(self) ==
    [self EXCEPT !.row_slice_state = <<0, Min(self.display_rows, self.max_rows)>>]

\* execute_sql adopting the result without changing the modifier state
execute_sql_keeps_mode(self, sql_query) ==
    LET r == sql_execute(self.file_name, self.original_lazy_frame, sql_query)
    IN IF r.res # "ok"
       THEN [res |-> "err", pf |-> self]
       ELSE update_with(self, r.lf, self.modifier_state)

\* execute_sql registering the current frame instead of the original
execute_sql_on_current(self, sql_query) ==
    LET r == sql_execute(self.file_name, self.current_lazy_frame, sql_query)
    IN IF r.res # "ok"
       THEN [res |-> "err", pf |-> self]
       ELSE update_with(self, r.lf, Queried)

\* PeepFrame::execute_sql
execute_sql(self, sql_query) ==
    LET r == sql_execute(self.file_name, self.original_lazy_frame, sql_query)
    IN IF r.res # "ok"
       THEN [res |-> "err", pf |-> self]
       ELSE update_with(self, r.lf, Queried)

\* The outcomes of bool_vec.shuffle: every arrangement of the same values
Shuffles(bool_vec) ==
    {m \in [1..Len(bool_vec) -> BOOLEAN] :
        Cardinality({i \in 1..Len(m) : m[i]})
          = Cardinality({i \in 1..Len(bool_vec) : bool_vec[i]})}

\* sample_col: the masks it can return; s.len() - num_sample underflows when
\* the series is shorter than the sample (a panic in a debug build, a
\* capacity-overflow panic of vec! in a release build), and then there is none
sample_col(s_len, num_sample) ==
    IF s_len < num_sample
    THEN {}
    ELSE Shuffles([i \in 1..num_sample |-> TRUE]
                    \o [i \in 1..(s_len - num_sample) |-> FALSE])

\* .filter(col("_sample")) on the rows of a frame
filter_mask(rows, mask) ==
    LET Kept(i) == mask[i]
        idx == SelectSeq([i \in 1..Len(rows) |-> i], Kept)
    IN [k \in 1..Len(idx) |-> rows[idx[k]]]

InSeq(x, s) == \E i \in 1..Len(s) : s[i] = x

\* the masks a collect of the frame may draw: none to draw for a frame
\* without a mask in its plan
frame_draws(lf) ==
    IF lf.draw = <<>> THEN {<<>>} ELSE sample_col(Len(lf.rows), lf.draw[1])

\* the rows a collect of the frame yields when it draws this mask
collect_rows(lf, mask) ==
    IF lf.draw = <<>> THEN lf.rows ELSE filter_mask(lf.rows, mask)

\* shuffle_rows adopting the filtered plan without collecting it first
shuffle_rows_lazy(self, mask) ==
    IF Len(self.col_names) = 0
    THEN [res |-> "err", pf |-> self]
    ELSE
      LET first_col == self.col_names[1]
          olf == self.original_lazy_frame
      IN IF ~olf.ok \/ ~InSeq(first_col, olf.cols)
         THEN [res |-> "err", pf |-> self]
         ELSE IF sample_col(Len(olf.rows), self.display_rows) = {}
         THEN [res |-> "panic", pf |-> self]
         ELSE
           update_with(self,
                       [plan |-> <<"scan", "sample">>,
                        rows |-> olf.rows,
                        cols |-> olf.cols,
                        ok   |-> TRUE,
                        draw |-> <<self.display_rows>>],
                       RandomRows)

\* shuffle_rows setting the modifier state before the frame is collected
shuffle_rows_marks_first(self, mask) ==
    IF Len(self.col_names) = 0
    THEN [res |-> "err", pf |-> self]
    ELSE
      LET first_col == self.col_names[1]
          olf == self.original_lazy_frame
          marked == [self EXCEPT !.modifier_state = RandomRows]
      IN IF ~olf.ok \/ ~InSeq(first_col, olf.cols)
         THEN [res |-> "err", pf |-> marked]
         ELSE IF sample_col(Len(olf.rows), self.display_rows) = {}
         THEN [res |-> "panic", pf |-> marked]
         ELSE
           update_with(marked,
                       [plan |-> <<"df">>,
                        rows |-> slice_rows(filter_mask(olf.rows, mask),
                                            0, self.display_rows),
                        cols |-> olf.cols,
                        ok   |-> TRUE,
                        draw |-> <<>>],
                       RandomRows)

\* PeepFrame::shuffle_rows, for the mask that the shuffle produced
\* (mask is only read when sample_col returned one)
shuffle_rows(self, mask) ==
    IF Len(self.col_names) = 0
    THEN [res |-> "err", pf |-> self]
    ELSE
      LET first_col == self.col_names[1]
          sample_size == self.display_rows
          olf == self.original_lazy_frame
      IN IF ~olf.ok \/ ~InSeq(first_col, olf.cols)
         THEN [res |-> "err", pf |-> self]
         ELSE IF sample_col(Len(olf.rows), sample_size) = {}
         THEN [res |-> "panic", pf |-> self]
         ELSE
           LET new_lazy_frame ==
                 [plan |-> <<"df">>,
                  rows |-> slice_rows(filter_mask(olf.rows, mask),
                                      0, self.display_rows),
                  cols |-> olf.cols,
                  ok   |-> TRUE,
                  draw |-> <<>>]
           IN update_with(self, new_lazy_frame, RandomRows)

\* reset_to_original re-adopting the current frame
reset_to_current(self) ==
    update_with(self, self.current_lazy_frame, Original)

\* PeepFrame::reset_to_original
reset_to_original(self) ==
    update_with(self, self.original_lazy_frame, Original)

\* ---- render.rs ----

\* render_header
render_header(pf) ==
    CASE pf.modifier_state = Original -> "Table name"
      [] pf.modifier_state = Queried -> "SQL result"
      [] OTHER -> "Sampling rows"

\* render_table: slicing col_names[start..end] panics when the range is
\* inverted or runs past the names; otherwise the frame is sliced, the
\* columns selected and the result collected (mask: what the collect draws)
render_table(pf, mask) ==
    LET start == pf.col_slice_state[1]
        end == pf.col_slice_state[2]
    IN IF start > end \/ end > Len(pf.col_names)
       THEN [res |-> "panic", rows |-> <<>>, cols |-> <<>>]
       ELSE IF ~pf.current_lazy_frame.ok
       THEN [res |-> "err", rows |-> <<>>, cols |-> <<>>]
       ELSE [res |-> "ok",
             rows |-> slice_rows(collect_rows(pf.current_lazy_frame, mask),
                                 pf.row_slice_state[1], pf.display_rows),
             cols |-> SubSeq(pf.col_names, start + 1, end)]

\* render_view_data: the row indicator (start, end, total), which is not
\* printed for RandomRows
render_view_data(pf) ==
    IF pf.modifier_state \in {Original, Queried}
    THEN <<pf.row_slice_state[1], pf.row_slice_state[2], pf.max_rows>>
    ELSE <<>>

\* render: what is printed, or the failure
render(pf, mask) ==
    LET table == render_table(pf, mask)
    IN [res |-> table.res,
        header |-> render_header(pf),
        view |-> render_view_data(pf),
        rows |-> table.rows,
        cols |-> table.cols]

\* ---- control.rs: event_loop, and main's expect on its result ----

VARIABLES
    peep_frame,   \* the PeepFrame owned by event_loop
    pc,           \* where the program is: "read" (blocked in read()),
                  \* "sql" (blocked in read_line of the SQL prompt),
                  \* "quit" (event_loop returned Ok), "error" (event_loop
                  \* returned Err, main's expect ends the process),
                  \* "panic" (a panic unwound out of the loop)
    event,        \* the last input handled and the result of its operation
    screen        \* the last render

vars == <<peep_frame, pc, event, screen>>

\* the session starts on a file with at least one column (a header line or a
\* parquet schema) and any number of rows; the page sizes are any usize

\* from, rows, cols: the modifier_state and the windows the frame had when the
\* input was read; downs: how many inputs the session has handled when all of
\* them were Down keys (counted up to MaxDowns), -1 otherwise
Ev(key, arg, res) ==
    [key |-> key, arg |-> arg, res |-> res,
     from |-> peep_frame.modifier_state,
     rows |-> peep_frame.row_slice_state,
     cols |-> peep_frame.col_slice_state,
     downs |-> IF key = "down" /\ event.downs >= 0 /\ event.downs < MaxDowns
               THEN event.downs + 1
               ELSE -1]

Init ==
    \E nrows \in 0..MaxRows, ncols \in 1..MaxCols,
       display_rows \in 0..MaxDisplayRows, display_cols \in 0..MaxDisplayCols :
        /\ peep_frame = from_file(nrows, ncols, display_rows, display_cols)
        /\ pc = "read"
        /\ event = [key |-> "init", arg |-> "", res |-> "ok", from |-> Original,
                    rows |-> peep_frame.row_slice_state,
                    cols |-> peep_frame.col_slice_state,
                    downs |-> 0]
        /\ screen = render(peep_frame, <<>>)

\* the tail of the loop body: clear_screen()?; render::render(&peep_frame)?;
ReRender(pf) ==
    \E mask \in frame_draws(pf.current_lazy_frame) :
        LET out == render(pf, mask)
        IN /\ screen' = out
           /\ pc' = CASE out.res = "ok" -> "read"
                      [] out.res = "err" -> "error"
                      [] OTHER -> "panic"

\* a key whose handler cannot fail
Infallible(key, newpf) ==
    /\ peep_frame' = newpf
    /\ event' = Ev(key, "", "ok")
    /\ ReRender(newpf)

\* a key whose handler is followed by `?`
Fallible(key, r) ==
    /\ peep_frame' = r.pf
    /\ event' = Ev(key, "", r.res)
    /\ IF r.res = "ok"
       THEN ReRender(r.pf)
       ELSE /\ pc' = (IF r.res = "err" THEN "error" ELSE "panic")
            /\ UNCHANGED screen

KeyDown ==
    /\ pc = "read"
    /\ Infallible("down", down(peep_frame))

KeyUp ==
    /\ pc = "read"
    /\ Infallible("up", up(peep_frame))

KeyLeft ==
    /\ pc = "read"
    /\ Infallible("left", left(peep_frame))

KeyRight ==
    /\ pc = "read"
    /\ Infallible("right", right(peep_frame))

KeyT ==
    /\ pc = "read"
    /\ Infallible("t", jump_to_tail(peep_frame))

KeyH ==
    /\ pc = "read"
    /\ Infallible("h", jump_to_head(peep_frame))

\* 'r': peep_frame.shuffle_rows()?
KeyR ==
    LET masks == sample_col(Len(peep_frame.original_lazy_frame.rows),
                            peep_frame.display_rows)
    IN /\ pc = "read"
       /\ IF masks = {}
          THEN Fallible("r", shuffle_rows(peep_frame, <<>>))
          ELSE \E mask \in masks :
                  Fallible("r", shuffle_rows(peep_frame, mask))

\* 's': print the prompt and block in read_line
KeyS ==
    /\ pc = "read"
    /\ pc' = "sql"
    /\ event' = Ev("s", "", "ok")
    /\ UNCHANGED <<peep_frame, screen>>

\* the SQL prompt propagating a failed query with `?` instead of printing it
SqlLine_propagates_error ==
    /\ pc = "sql"
    /\ \E sql_query \in QueryTexts \cup {"q"} :
        IF sql_query = "q"
        THEN /\ event' = Ev("line", sql_query, "ok")
             /\ UNCHANGED peep_frame
             /\ ReRender(peep_frame)
        ELSE LET r == execute_sql(peep_frame, sql_query)
             IN /\ peep_frame' = r.pf
                /\ event' = Ev("sql", sql_query, r.res)
                /\ IF r.res = "ok"
                   THEN ReRender(r.pf)
                   ELSE pc' = "error" /\ UNCHANGED screen

\* a line typed at the SQL prompt: "q" breaks out, a query that succeeds
\* breaks out, a query that fails is printed and the prompt reads again
SqlLine ==
    /\ pc = "sql"
    /\ \E sql_query \in QueryTexts \cup {"q"} :
        IF sql_query = "q"
        THEN /\ event' = Ev("line", sql_query, "ok")
             /\ UNCHANGED peep_frame
             /\ ReRender(peep_frame)
        ELSE LET r == execute_sql(peep_frame, sql_query)
             IN /\ peep_frame' = r.pf
                /\ event' = Ev("sql", sql_query, r.res)
                /\ IF r.res = "ok"
                   THEN ReRender(r.pf)
                   ELSE UNCHANGED <<pc, screen>>

\* 'o': peep_frame.reset_to_original()?
KeyO ==
    /\ pc = "read"
    /\ Fallible("o", reset_to_original(peep_frame))

\* 'q': leave the alternate screen and break
KeyQ ==
    /\ pc = "read"
    /\ pc' = "quit"
    /\ event' = Ev("q", "", "ok")
    /\ UNCHANGED <<peep_frame, screen>>

\* any other event matches no branch and falls through to the re-render
KeyOther ==
    /\ pc = "read"
    /\ Infallible("other", peep_frame)

Next ==
    \/ KeyDown
    \/ KeyUp
    \/ KeyLeft
    \/ KeyRight
    \/ KeyT
    \/ KeyH
    \/ KeyR
    \/ KeyS
    \/ SqlLine
    \/ KeyO
    \/ KeyQ
    \/ KeyOther

Spec == Init /\ [][Next]_vars

\* ---- paging sessions: a large file browsed with the row keys only ----

PagingInit ==
    \E nrows \in 0..MaxPagingRows, ncols \in (MaxPagingCols - 1)..MaxPagingCols,
       display_rows \in 1..DefaultDisplayRows :
        /\ peep_frame = from_file(nrows, ncols, display_rows, DefaultDisplayCols)
        /\ pc = "read"
        /\ event = [key |-> "init", arg |-> "", res |-> "ok", from |-> Original,
                    rows |-> peep_frame.row_slice_state,
                    cols |-> peep_frame.col_slice_state,
                    downs |-> 0]
        /\ screen = render(peep_frame, <<>>)

PagingNext ==
    \/ KeyDown
    \/ KeyUp
    \/ KeyT
    \/ KeyH

PagingSpec == PagingInit /\ [][PagingNext]_vars

\* ---- the claims ----

\* the frame from_file builds for the file behind a frame's original_lazy_frame
Fresh(pf) ==
    from_file(Len(pf.original_lazy_frame.rows), Len(pf.original_lazy_frame.cols),
              pf.display_rows, pf.display_cols)

\* the result of shuffle_rows on a frame, whatever the shuffle draws
shuffle_result(pf) ==
    LET masks == sample_col(Len(pf.original_lazy_frame.rows), pf.display_rows)
    IN IF masks = {}
       THEN shuffle_rows(pf, <<>>).res
       ELSE shuffle_rows(pf, CHOOSE m \in masks : TRUE).res

Distinct(s) == \A i, j \in 1..Len(s) : i # j => s[i] # s[j]

\* C1: in every reachable state the column window satisfies
\* 0 <= start <= end <= max_cols and end - start <= display_cols
C1_ColumnWindowInRange ==
    LET start == peep_frame.col_slice_state[1]
        end == peep_frame.col_slice_state[2]
    IN /\ 0 <= start
       /\ start <= end
       /\ end <= peep_frame.max_cols
       /\ end - start <= peep_frame.display_cols

\* C2: in every reachable state the row window satisfies
\* 0 <= start <= end <= max_rows and end - start <= display_rows, and it is
\* (0, max_rows) when max_rows < display_rows
C2_RowWindowInRange ==
    LET start == peep_frame.row_slice_state[1]
        end == peep_frame.row_slice_state[2]
    IN /\ 0 <= start
       /\ start <= end
       /\ end <= peep_frame.max_rows
       /\ end - start <= peep_frame.display_rows
       /\ peep_frame.max_rows < peep_frame.display_rows
            => peep_frame.row_slice_state = <<0, peep_frame.max_rows>>

C2_Witness ==
    /\ event.key = "down"
    /\ peep_frame.modifier_state = Queried
    /\ peep_frame.max_rows > peep_frame.display_rows
    /\ peep_frame.display_rows > 0
    /\ peep_frame.max_rows % peep_frame.display_rows # 0
    /\ peep_frame.row_slice_state[2] = peep_frame.max_rows

\* C3: for every row count of the original, sampling (when the mask's column
\* resolves) builds a mask of max_rows entries with min(display_rows, rows)
\* true ones and leaves exactly that many distinct original rows current
C3_SampleHoldsMinRows ==
    LET n == Len(peep_frame.original_lazy_frame.rows)
        k == Min(peep_frame.display_rows, n)
        masks == sample_col(n, peep_frame.display_rows)
        cur == peep_frame.current_lazy_frame.rows
    IN event.key = "r" /\ event.res # "err" =>
         /\ masks # {}
         /\ \A m \in masks :
               Len(m) = n /\ Cardinality({i \in 1..n : m[i]}) = k
         /\ event.res = "ok"
         /\ Len(cur) = k
         /\ Distinct(cur)
         /\ \A i \in 1..Len(cur) : InSeq(cur[i], peep_frame.original_lazy_frame.rows)

\* C4: a query that fails, at execute or in update_with, leaves the whole
\* frame as it was
C4_FailedQueryChangesNothing ==
    [][event'.key = "sql" /\ event'.res = "err" => peep_frame' = peep_frame]_vars

C4_Witness ==
    /\ event.key = "sql"
    /\ event.arg = "lazyfail"
    /\ event.res = "err"
    /\ peep_frame.modifier_state = Queried
    /\ peep_frame.col_slice_state[1] > 0

\* C5: a sampling that does not succeed leaves the whole frame as it was
C5_FailedSampleChangesNothing ==
    [][event'.key = "r" /\ event'.res # "ok" => peep_frame' = peep_frame]_vars

C5_Witness ==
    /\ event.key = "r"
    /\ event.res = "err"
    /\ peep_frame.modifier_state = Queried
    /\ Len(peep_frame.col_names) > 0

\* C6: the loop is left only by the quit key: every other input, whether its
\* operation succeeds or fails, is followed by another read
C6_LoopEndsOnlyOnQuit ==
    [][(pc \in {"read", "sql"} /\ pc' \notin {"read", "sql"})
          => (event'.key = "q")]_vars

\* C7: whether sampling succeeds depends on the original frame and the page
\* sizes only: it ends as it would on the freshly loaded frame
C7_SampleFromOriginalOnly ==
    event.key = "r" => event.res = shuffle_result(Fresh(peep_frame))

\* C8: a query that succeeds leaves the frame, counts and names that the same
\* text gives on the freshly loaded frame, whatever came before
C8_QueryRunsOnOriginal ==
    event.key = "sql" /\ event.res = "ok" =>
        LET fresh == execute_sql(Fresh(peep_frame), event.arg).pf
        IN /\ peep_frame.current_lazy_frame = fresh.current_lazy_frame
           /\ peep_frame.current_lazy_frame
                = sql_execute(peep_frame.file_name,
                              peep_frame.original_lazy_frame, event.arg).lf
           /\ peep_frame.max_rows = fresh.max_rows
           /\ peep_frame.max_cols = fresh.max_cols
           /\ peep_frame.col_names = fresh.col_names

C8_Witness ==
    /\ event.key = "sql"
    /\ event.res = "ok"
    /\ event.arg = "wide"
    /\ event.from = Queried

\* C9: reset always succeeds and gives the original frame, its counts and
\* names, mode Original and both windows at the start; the loop reads on, and
\* reset is possible whenever the loop is reading a key
C9_ResetRestoresOriginal ==
    /\ event.key = "o" =>
        LET olf == peep_frame.original_lazy_frame
        IN /\ event.res = "ok"
           /\ pc = "read"
           /\ peep_frame.modifier_state = Original
           /\ peep_frame.current_lazy_frame = olf
           /\ peep_frame.max_rows = Len(olf.rows)
           /\ peep_frame.max_cols = Len(olf.cols)
           /\ peep_frame.col_names = olf.cols
           /\ peep_frame.row_slice_state
                = <<0, Min(peep_frame.display_rows, Len(olf.rows))>>
           /\ peep_frame.col_slice_state
                = <<0, Min(peep_frame.display_cols, Len(olf.cols))>>
    /\ pc = "read" => ENABLED KeyO

C9_Witness ==
    /\ event.key = "o"
    /\ event.from = RandomRows
    /\ peep_frame.max_cols > peep_frame.display_cols
    /\ peep_frame.max_rows > peep_frame.display_rows

\* C10: a sampling that succeeds keeps the column window's start, sets its end
\* to min(start + display_cols, new max_cols), sets mode RandomRows and the
\* row window to (0, min(display_rows, new max_rows))
C10_SampleKeepsColumnStart ==
    [][event'.key = "r" /\ event'.res = "ok" =>
        /\ peep_frame'.col_slice_state[1] = peep_frame.col_slice_state[1]
        /\ peep_frame'.col_slice_state[2]
             = Min(peep_frame.col_slice_state[1] + peep_frame.display_cols,
                   peep_frame'.max_cols)
        /\ peep_frame'.max_cols = Len(peep_frame'.current_lazy_frame.cols)
        /\ peep_frame'.modifier_state = RandomRows
        /\ peep_frame'.row_slice_state
             = <<0, Min(peep_frame.display_rows, peep_frame'.max_rows)>>
        /\ peep_frame'.max_rows = Len(peep_frame'.current_lazy_frame.rows)]_vars

C10_Witness ==
    /\ event.key = "r"
    /\ event.res = "ok"
    /\ pc = "read"
    /\ peep_frame.col_slice_state[1] > 0
    /\ peep_frame.col_slice_state[2] > peep_frame.col_slice_state[1]

\* C11: a query that succeeds, from any mode and scroll position, sets mode
\* Queried, adopts the frame the query returned, caches its counts and names,
\* and resets both windows to the start
C11_QueryAdoptsResult ==
    event.key = "sql" /\ event.res = "ok" =>
        LET cur == peep_frame.current_lazy_frame
        IN /\ peep_frame.modifier_state = Queried
           /\ cur.plan = <<"scan", event.arg>>
           /\ peep_frame.max_rows = Len(cur.rows)
           /\ peep_frame.max_cols = Len(cur.cols)
           /\ peep_frame.col_names = cur.cols
           /\ peep_frame.row_slice_state
                = <<0, Min(peep_frame.display_rows, peep_frame.max_rows)>>
           /\ peep_frame.col_slice_state
                = <<0, Min(peep_frame.display_cols, peep_frame.max_cols)>>

C11_Witness ==
    /\ event.key = "sql"
    /\ event.res = "ok"
    /\ event.from = RandomRows
    /\ event.cols[1] > 0
    /\ peep_frame.max_cols > Len(peep_frame.original_lazy_frame.cols)

\* C12: while the mode stays RandomRows, every input but a new sampling, a
\* query or a reset leaves the current frame as it is, the frame has no mask
\* left to draw, and the re-render shows the same rows as the render before
C12_SampleIsFrozen ==
    [][(/\ peep_frame.modifier_state = RandomRows
        /\ pc \in {"read", "sql"}
        /\ event'.key \notin {"r", "sql", "o"})
       => (/\ peep_frame'.current_lazy_frame = peep_frame.current_lazy_frame
           /\ peep_frame.current_lazy_frame.draw = <<>>
           /\ screen'.rows = screen.rows
           /\ screen'.rows = peep_frame.current_lazy_frame.rows)]_vars

C12_Witness ==
    /\ event.key = "other"
    /\ event.from = RandomRows
    /\ peep_frame.modifier_state = RandomRows
    /\ Len(peep_frame.current_lazy_frame.rows) > 0
    /\ Len(peep_frame.original_lazy_frame.rows) > peep_frame.display_rows

\* C13: Down pressed with the row window's end at max_rows, and Up pressed
\* with its start at 0, leave the row window as it was
C13_RowPagingNoOpAtBounds ==
    /\ event.key = "down" /\ event.rows[2] = peep_frame.max_rows
         => peep_frame.row_slice_state = event.rows
    /\ event.key = "up" /\ event.rows[1] = 0
         => peep_frame.row_slice_state = event.rows

C13_Witness ==
    /\ event.key = "down"
    /\ event.rows[2] = peep_frame.max_rows
    /\ event.rows[1] > 0
    /\ peep_frame.display_rows > 0
    /\ peep_frame.max_rows % peep_frame.display_rows # 0

\* C14: Right pressed with the column window's end at max_cols, and Left
\* pressed with its start at 0, leave the column window as it was
C14_ColumnPagingNoOpAtBounds ==
    /\ event.key = "right" /\ event.cols[2] = peep_frame.max_cols
         => peep_frame.col_slice_state = event.cols
    /\ event.key = "left" /\ event.cols[1] = 0
         => peep_frame.col_slice_state = event.cols

\* C15: Up, Down, 'h' and 't' change no field of the frame but the row
\* window, Left and Right none but the column window, and none of them fails
C15_NavigationChangesOwnWindowOnly ==
    [][/\ event'.key \in {"up", "down", "h", "t"}
          => /\ peep_frame' = [peep_frame EXCEPT
                  !.row_slice_state = peep_frame'.row_slice_state]
             /\ event'.res = "ok"
       /\ event'.key \in {"left", "right"}
          => /\ peep_frame' = [peep_frame EXCEPT
                  !.col_slice_state = peep_frame'.col_slice_state]
             /\ event'.res = "ok"]_vars

C15_Witness ==
    /\ event.key = "right"
    /\ peep_frame.col_slice_state # event.cols
    /\ peep_frame.row_slice_state = event.rows
    /\ event.rows[1] > 0
    /\ peep_frame.modifier_state = Queried

\* C16: in every state the mode tells what the current frame is (Original:
\* the original frame; Queried: the result of a query on the original frame;
\* RandomRows: a collected sample of the original frame), and a step that
\* changes the mode or the current frame is a query, sampling or reset that
\* succeeded and set both, the query's frame being the result of its text
C16_ModeAndFrameTogether ==
    /\ [](LET cur == peep_frame.current_lazy_frame
              olf == peep_frame.original_lazy_frame
          IN /\ peep_frame.modifier_state \in {Original, Queried, RandomRows}
             /\ peep_frame.modifier_state = Original => cur = olf
             /\ peep_frame.modifier_state = Queried =>
                  \E q \in QueryTexts :
                      /\ sql_execute(peep_frame.file_name, olf, q).res = "ok"
                      /\ cur = sql_execute(peep_frame.file_name, olf, q).lf
             /\ peep_frame.modifier_state = RandomRows =>
                  /\ cur.plan = <<"df">>
                  /\ cur.draw = <<>>
                  /\ cur.cols = olf.cols
                  /\ \A i \in 1..Len(cur.rows) : InSeq(cur.rows[i], olf.rows))
    /\ [][(\/ peep_frame'.modifier_state # peep_frame.modifier_state
           \/ peep_frame'.current_lazy_frame # peep_frame.current_lazy_frame)
          => (/\ event'.res = "ok"
              /\ event'.key \in {"sql", "r", "o"}
              /\ event'.key = "sql" =>
                   /\ peep_frame'.modifier_state = Queried
                   /\ peep_frame'.current_lazy_frame
                        = sql_execute(peep_frame.file_name,
                                      peep_frame.original_lazy_frame,
                                      event'.arg).lf
              /\ event'.key = "r" =>
                   /\ peep_frame'.modifier_state = RandomRows
                   /\ peep_frame'.current_lazy_frame.plan = <<"df">>
              /\ event'.key = "o" =>
                   /\ peep_frame'.modifier_state = Original
                   /\ peep_frame'.current_lazy_frame
                        = peep_frame.original_lazy_frame)]_vars

C16_Witness ==
    /\ event.key = "r"
    /\ event.res = "ok"
    /\ event.from = Queried
    /\ peep_frame.modifier_state = RandomRows
    /\ Len(peep_frame.current_lazy_frame.rows) > 0

\* C17: no step changes the original frame, the file name or the page sizes
C17_OriginalAndConfigFixed ==
    [][/\ peep_frame'.original_lazy_frame = peep_frame.original_lazy_frame
       /\ peep_frame'.file_name = peep_frame.file_name
       /\ peep_frame'.display_rows = peep_frame.display_rows
       /\ peep_frame'.display_cols = peep_frame.display_cols]_vars

C17_Witness ==
    /\ event.key = "sql"
    /\ event.res = "ok"
    /\ event.arg = "where"
    /\ event.from = RandomRows
    /\ peep_frame.current_lazy_frame # peep_frame.original_lazy_frame
    /\ Len(peep_frame.original_lazy_frame.rows) > peep_frame.max_rows

\* C18: from the initial window, with max_rows >= display_rows > 0, k Down
\* keys in a row give the row window (e - display_rows, e) with
\* e = min((k + 1) * display_rows, max_rows); for 100 rows, 12 columns and
\* pages of 7 rows and 5 columns the session starts at rows (0,7) and
\* columns (0,5), 14 Down keys give rows (93,100) and 't' gives rows (93,100)
C18_PageDownClosedForm ==
    LET k == event.downs
        dr == peep_frame.display_rows
        n == peep_frame.max_rows
        e == Min((k + 1) * dr, n)
    IN /\ (k >= 0 /\ n >= dr /\ dr > 0)
            => peep_frame.row_slice_state = <<e - dr, e>>
       /\ (n = 100 /\ peep_frame.max_cols = 12 /\ dr = 7
             /\ peep_frame.display_cols = 5)
            => /\ event.key = "init"
                    => /\ peep_frame.row_slice_state = <<0, 7>>
                       /\ peep_frame.col_slice_state = <<0, 5>>
               /\ k = 14 => peep_frame.row_slice_state = <<93, 100>>
               /\ event.key = "t" => peep_frame.row_slice_state = <<93, 100>>

C18_Witness ==
    /\ event.downs = 14
    /\ peep_frame.max_rows = 100
    /\ peep_frame.max_cols = 12
    /\ peep_frame.display_rows = 7
    /\ peep_frame.display_cols = 5
    /\ peep_frame.row_slice_state = <<93, 100>>

\* C19: a query that fails leaves the frame as it was and the prompt reading
\* the next line; leaving the prompt with "q" keeps the frame and returns to
\* the key loop; at the prompt the frame changes only by a query that
\* succeeds, which sets mode Queried and returns to the key loop
C19_FailedQueryRecoverable ==
    [][/\ (event'.key = "sql" /\ event'.res = "err")
          => (pc' = "sql" /\ peep_frame' = peep_frame)
       /\ (pc = "sql" /\ event'.key = "line")
          => (pc' = "read" /\ peep_frame' = peep_frame)
       /\ (pc = "sql" /\ peep_frame' # peep_frame)
          => (/\ event'.key = "sql"
              /\ event'.res = "ok"
              /\ peep_frame'.modifier_state = Queried
              /\ pc' = "read")]_vars

C19_Witness ==
    /\ event.key = "sql"
    /\ event.arg = "bad"
    /\ event.res = "err"
    /\ event.from = RandomRows
    /\ pc = "sql"
    /\ peep_frame.modifier_state = RandomRows

\* C20: in every state the row window's end is min(start + display_rows,
\* max_rows), a full page when max_rows >= display_rows; the rows on the
\* screen are the rows [start, end) of the current frame, and the row
\* indicator, when printed, shows that window
C20_RowWindowIsOnePage ==
    LET start == peep_frame.row_slice_state[1]
        end == peep_frame.row_slice_state[2]
    IN /\ end = Min(start + peep_frame.display_rows, peep_frame.max_rows)
       /\ peep_frame.max_rows >= peep_frame.display_rows
            => end - start = peep_frame.display_rows
       /\ screen.res = "ok"
            => /\ screen.rows
                    = SubSeq(peep_frame.current_lazy_frame.rows, start + 1, end)
               /\ screen.view # <<>>
                    => screen.view = <<start, end, peep_frame.max_rows>>

C20_Witness ==
    /\ event.key = "t"
    /\ peep_frame.row_slice_state[1] > 0
    /\ peep_frame.display_rows > 0
    /\ peep_frame.max_rows % peep_frame.display_rows # 0
    /\ screen.view = <<peep_frame.row_slice_state[1],
                       peep_frame.row_slice_state[2], peep_frame.max_rows>>
    /\ Len(screen.rows) = peep_frame.display_rows

====
